---- MODULE Spec2Model ----
(***************************************************************************)
(* Media ingestion pipeline of the video-hosting backend: the thumbnail    *)
(* and video upload handlers, the asset path helpers, the geometry         *)
(* inspector (ffprobe), the fast-start rewriter (ffmpeg) and the URL       *)
(* signing adapter.                                                        *)
(*                                                                         *)
(* Go strings are modelled as sequences of tokens; the delimiters "," and  *)
(* "/" are tokens of their own and no other token contains them, so that   *)
(* strings.Split, fmt.Sprintf and filepath.Join are computed, not assumed. *)
(* A *string is Nil (the empty tuple) or Ptr(s), a one-element tuple.      *)
(***************************************************************************)
EXTENDS Integers, Sequences, FiniteSets, TLC

\* ------------------------------------------------------------------ bounds

\* Number of upload requests served, all of which may be in flight at once.
NumReqs == 2
\* Largest stream width/height drawn for the geometry inspector.
MaxDim == 20
\* Longest stored reference (in tokens) drawn for the signing adapter.
MaxLen == 4

\* ------------------------------------------------------------- vocabulary

Reqs == 1..NumReqs
Users == {"u1", "u2"}
Nil == << >>
Ptr(s) == << s >>
Comma == ","
Slash == "/"

StatusOK == 200
StatusBadRequest == 400
StatusUnauthorized == 401
StatusInternalServerError == 500

\* cfg: the configuration the handlers read.
s3Bucket == << "tubely" >>
assetsRoot == << "assets" >>
port == << "8091" >>

VideoMP4 == << "video", Slash, "mp4" >>
ImageJPEG == << "image", Slash, "jpeg" >>
ImagePNG == << "image", Slash, "png" >>
TextPlain == << "text", Slash, "plain" >>
\* What mime.ParseMediaType can return for a form file's Content-Type.
MediaTypes == {VideoMP4, ImageJPEG, ImagePNG, TextPlain}

\* ---------------------------------------------------------------- strings

\* Index of the first occurrence of sep in s, 0 when there is none.
RECURSIVE IndexFrom(_, _, _)
IndexFrom(s, sep, i) ==
    IF i > Len(s) THEN 0
    ELSE IF s[i] = sep THEN i
    ELSE IndexFrom(s, sep, i + 1)

\* strings.Split(s, sep) for a one-token separator: always at least one part.
RECURSIVE Split(_, _)
Split(s, sep) ==
    LET i == IndexFrom(s, sep, 1)
    IN  IF i = 0 THEN << s >>
        ELSE << SubSeq(s, 1, i - 1) >> \o Split(SubSeq(s, i + 1, Len(s)), sep)

\* filepath.Join(a, b) for non-empty clean elements.
Join(a, b) == a \o << Slash >> \o b

\* ------------------------------------------------------------------ state

VARIABLES
    db,                 \* metadata store: video ID -> database.Video
    fs,                 \* local filesystem: path -> [size, by]
    s3,                 \* object store: set of [bucket, key, by] objects put
    kind,               \* per request: which endpoint it addresses
    pc,                 \* per request: the handler's next step
    userID,             \* per request: result of auth.ValidateJWT
    videoID,            \* per request: parsed path parameter
    video,              \* per request: the handler's local database.Video
    mediaType,          \* per request: parsed Content-Type of the form file
    tempFile,           \* per request: tempFile.Name() (Nil before CreateTemp)
    key,                \* per request: asset path / object key
    processedFilePath,  \* per request: result of processVideoForFastStart
    defers,             \* per request: paths registered with defer os.Remove
    resp,               \* per request: responses written, [code, body] each
    failedAt,           \* history: the check that made the handler return
    log,                \* history: pipeline steps completed, in order
    calls,              \* history: external operations invoked, in order
    effects,            \* history: side effects performed so far
    rwOut,              \* history: the rewriter run and what it left behind
    arg,                \* input of the function under test (unit specs)
    ret                 \* its result, Nil until applied (unit specs)

shared == << db, fs, s3 >>
locals == << userID, videoID, video, mediaType, tempFile, key,
             processedFilePath, defers >>
history == << failedAt, log, calls, effects, rwOut >>
unit == << arg, ret >>
vars == << db, fs, s3, kind, pc, userID, videoID, video, mediaType, tempFile,
           key, processedFilePath, defers, resp, failedAt, log, calls,
           effects, rwOut, arg, ret >>

\* database.Video, restricted to the fields the pipeline reads or writes.
Video(id, owner) ==
    [ID |-> id, UserID |-> owner, ThumbnailURL |-> Nil, VideoURL |-> Nil]
NoVideo == Video("", "")

\* The video records, created before any upload, and the IDs a request may
\* address.
InitDB == [id \in {"v1"} |-> Video(id, "u1")]
VideoIDs == DOMAIN InitDB

\* cfg.db.GetVideo, given whether the store's query succeeds.
GetVideo(store, id, ok) ==
    IF ok /\ id \in DOMAIN store THEN [err |-> FALSE, video |-> store[id]]
    ELSE [err |-> TRUE, video |-> NoVideo]

\* cfg.db.UpdateVideo on success: the whole record is overwritten.
UpdateVideo(store, v) == [store EXCEPT ![v.ID] = v]

\* ------------------------------------------------------------- filesystem

NoFiles == [p \in {} |-> [size |-> 0, by |-> 0]]
Exists(f, p) == p \in DOMAIN f
\* What os.Stat reports of p: no file, a zero-byte file, a file with data.
StateAt(f, p) ==
    IF ~Exists(f, p) THEN "none" ELSE IF f[p].size = 0 THEN "empty" ELSE "data"
WriteFile(f, p, sz, r) ==
    [q \in DOMAIN f \cup {p} |-> IF q = p THEN [size |-> sz, by |-> r] ELSE f[q]]
\* os.Remove
Remove(f, p) == [q \in DOMAIN f \ {p} |-> f[q]]

\* The deferred os.Remove calls of a returning handler, last registered first.
RECURSIVE RunDefers(_, _)
RunDefers(f, ds) ==
    IF ds = << >> THEN f
    ELSE RunDefers(Remove(f, ds[Len(ds)]), SubSeq(ds, 1, Len(ds) - 1))

\* Name os.CreateTemp("", "tubely-upload.mp4") gives for random suffix n.
\* CreateTemp opens with O_EXCL and draws again when the name exists, so it
\* returns a name no file has. Names are interchangeable except for what
\* earlier requests left beside them, so the model hands out the lowest free
\* one: a name is used again as soon as its staged file is gone.
TempNames == 1..NumReqs
TempPath(n) == << "/tmp", Slash, "tubely-upload.mp4", ToString(n) >>
\* Mutant: the staged file is created under one fixed name, without O_EXCL.
FreeTemp_FixedName(f, n) ==
    n = 1

FreeTemp(f, n) ==
    /\ ~Exists(f, TempPath(n))
    /\ \A m \in TempNames : m < n => Exists(f, TempPath(m))

\* ------------------------------------------------------------ asset paths

\* mediaTypeToExt taking the second part of any string with a "/".
mediaTypeToExt_AtLeastTwoParts(mt) ==
    LET parts == Split(mt, Slash)
    IN  IF Len(parts) < 2 THEN << ".bin" >> ELSE << "." >> \o parts[2]

\* mediaTypeToExt
mediaTypeToExt(mt) ==
    LET parts == Split(mt, Slash)
    IN  IF Len(parts) # 2 THEN << ".bin" >> ELSE << "." >> \o parts[2]

\* getAssetPath; id stands for the base64 text of the 32 random bytes.
getAssetPath(id, mt) == << id >> \o mediaTypeToExt(mt)

\* crypto/rand: 256 random bits, taken to be distinct for distinct requests
\* (a failing rand.Read, which panics, is left out).
RandID(r) == ToString(r)

\* cfg.getAssetDiskPath
getAssetDiskPath(assetPath) == Join(assetsRoot, assetPath)

\* cfg.getAssetURL
getAssetURL(assetPath) ==
    << "http://localhost:" >> \o port \o << "/assets/" >> \o assetPath

\* ----------------------------------------------------- geometry inspector

\* What one run of ffprobe can produce: exit status, whether stdout parses as
\* the expected JSON, and the streams it lists.
Stream(w, h) == [Width |-> w, Height |-> h]
\* Frame sizes of the spec's examples; uploads in the pipeline have the first
\* (a ratio that matches) or the last (one that does not).
StandardDims == { << 1920, 1080 >>, << 1080, 1920 >>, << 1000, 1000 >> }
ProbeDims == { << 1920, 1080 >>, << 1000, 1000 >> }
ProbeRuns ==
    { [exit |-> 1, json |-> FALSE, streams |-> << >>],
      [exit |-> 0, json |-> FALSE, streams |-> << >>],
      [exit |-> 0, json |-> TRUE, streams |-> << >>] }
    \cup { [exit |-> 0, json |-> TRUE, streams |-> << Stream(d[1], d[2]) >>] :
            d \in ProbeDims }

\* Mutant: the ratio test by cross-multiplication, without truncation.
AspectOf_ExactRatio(width, height) ==
    IF width * 9 = height * 16 THEN "16:9"
    ELSE IF height * 9 = width * 16 THEN "9:16"
    ELSE "other"


\* The ratio test on the first stream (Go's / truncates; operands are >= 0).
AspectOf(width, height) ==
    IF width = (16 * height) \div 9 THEN "16:9"
    ELSE IF height = (16 * width) \div 9 THEN "9:16"
    ELSE "other"

\* getVideoAspectRatio, given what the ffprobe run produced.
getVideoAspectRatio(run) ==
    IF run.exit # 0 THEN [aspect |-> "", err |-> TRUE]
    ELSE IF ~run.json THEN [aspect |-> "", err |-> TRUE]
    ELSE IF Len(run.streams) = 0 THEN [aspect |-> "", err |-> TRUE]
    ELSE [aspect |-> AspectOf(run.streams[1].Width, run.streams[1].Height),
          err |-> FALSE]

\* The handler's switch on the aspect ratio.
DirectoryOf(aspectRatio) ==
    CASE aspectRatio = "16:9" -> "landscape"
      [] aspectRatio = "9:16" -> "portrait"
      [] OTHER -> "other"

\* ---------------------------------------------------- fast-start rewriter

\* What one run of ffmpeg can do: exit status and what it leaves at the output
\* path ("none": nothing written, "empty": a zero-byte file, "data").
FfmpegRuns == [exit : {0, 1}, out : {"none", "empty", "data"}]

Ffmpeg(f, outPath, run, r) ==
    CASE run.out = "none" -> f
      [] run.out = "empty" -> WriteFile(f, outPath, 0, r)
      [] OTHER -> WriteFile(f, outPath, 1, r)

\* Mutant: the post-condition check on the output's size is missing.
processVideoForFastStart_NoSizeCheck(inputFilePath, run, f, r) ==
    LET path == inputFilePath \o << ".processing" >>
        after == Ffmpeg(f, path, run, r)
    IN  IF run.exit # 0 THEN [path |-> << >>, err |-> TRUE, fs |-> after]
        ELSE IF ~Exists(after, path)
            THEN [path |-> << >>, err |-> TRUE, fs |-> after]
        ELSE [path |-> path, err |-> FALSE, fs |-> after]

\* processVideoForFastStart: [path, err] and the filesystem it leaves.
processVideoForFastStart(inputFilePath, run, f, r) ==
    LET path == inputFilePath \o << ".processing" >>
        after == Ffmpeg(f, path, run, r)
    IN  IF run.exit # 0 THEN [path |-> << >>, err |-> TRUE, fs |-> after]
        ELSE IF ~Exists(after, path)
            THEN [path |-> << >>, err |-> TRUE, fs |-> after]
        ELSE IF after[path].size = 0
            THEN [path |-> << >>, err |-> TRUE, fs |-> after]
        ELSE [path |-> path, err |-> FALSE, fs |-> after]

\* ---------------------------------------------------- URL signing adapter

\* generatePresignedURL, given whether PresignGetObject succeeds.
generatePresignedURL(bucket, k, ok) ==
    IF ok
    THEN [url |-> << "https://" >> \o bucket \o << ".s3", Slash >> \o k
                    \o << "?X-Amz-Signature" >>,
          err |-> FALSE]
    ELSE [url |-> << >>, err |-> TRUE]

\* Mutant: a record without a video reference is reported as an error.
dbVideoToSignedVideo_NilIsError(v, ok) ==
    IF v.VideoURL = Nil THEN [video |-> v, err |-> TRUE, signed |-> << >>]
    ELSE
        LET parts == Split(v.VideoURL[1], Comma)
        IN  IF Len(parts) < 2
            THEN [video |-> v, err |-> FALSE, signed |-> << >>]
            ELSE
                LET p == generatePresignedURL(parts[1], parts[2], ok)
                    asked == << [bucket |-> parts[1], key |-> parts[2]] >>
                IN  IF p.err
                    THEN [video |-> v, err |-> TRUE, signed |-> asked]
                    ELSE [video |-> [v EXCEPT !.VideoURL = Ptr(p.url)],
                          err |-> FALSE, signed |-> asked]


\* dbVideoToSignedVideo: the returned video, the error, and the (bucket, key)
\* pairs it asked generatePresignedURL to sign.
dbVideoToSignedVideo(v, ok) ==
    IF v.VideoURL = Nil THEN [video |-> v, err |-> FALSE, signed |-> << >>]
    ELSE
        LET parts == Split(v.VideoURL[1], Comma)
        IN  IF Len(parts) < 2
            THEN [video |-> v, err |-> FALSE, signed |-> << >>]
            ELSE
                LET p == generatePresignedURL(parts[1], parts[2], ok)
                    asked == << [bucket |-> parts[1], key |-> parts[2]] >>
                IN  IF p.err
                    THEN [video |-> v, err |-> TRUE, signed |-> asked]
                    ELSE [video |-> [v EXCEPT !.VideoURL = Ptr(p.url)],
                          err |-> FALSE, signed |-> asked]

\* Mutant: bucket and key are joined with "/" where the adapter splits on ",".
CompositeRef_SlashSeparated(bucket, k) == bucket \o << Slash >> \o k


\* fmt.Sprintf("%s,%s", cfg.s3Bucket, key): the reference the store is given.
CompositeRef(bucket, k) == bucket \o << Comma >> \o k

\* ------------------------------------------------------- handler plumbing

NoRun == [exit |-> -1, out |-> "notrun", left |-> "notrun"]

\* The handler returns: the deferred os.Remove calls run on the filesystem f
\* the step left, and the handler's local variables go out of scope.
Return(r, f) ==
    /\ pc' = [pc EXCEPT ![r] = "done"]
    /\ fs' = RunDefers(f, defers[r])
    /\ userID' = [userID EXCEPT ![r] = ""]
    /\ videoID' = [videoID EXCEPT ![r] = ""]
    /\ video' = [video EXCEPT ![r] = NoVideo]
    /\ mediaType' = [mediaType EXCEPT ![r] = << >>]
    /\ tempFile' = [tempFile EXCEPT ![r] = << >>]
    /\ key' = [key EXCEPT ![r] = << >>]
    /\ processedFilePath' = [processedFilePath EXCEPT ![r] = << >>]
    /\ defers' = [defers EXCEPT ![r] = << >>]

\* respondWithError followed by return.
Fail(r, code, cause, f) ==
    /\ Return(r, f)
    /\ resp' = [resp EXCEPT ![r] = Append(@, [code |-> code, body |-> Nil])]
    /\ failedAt' = [failedAt EXCEPT ![r] = cause]
    /\ log' = log

\* respondWithJSON(w, http.StatusOK, v) followed by return.
Succeed(r, step, v, f) ==
    /\ Return(r, f)
    /\ resp' = [resp EXCEPT ![r] = Append(@, [code |-> StatusOK, body |-> Ptr(v)])]
    /\ failedAt' = failedAt
    /\ log' = [log EXCEPT ![r] = Append(@, step)]

\* The step completed and the handler goes on to the next one.
Advance(r, step, next) ==
    /\ pc' = [pc EXCEPT ![r] = next]
    /\ log' = [log EXCEPT ![r] = Append(@, step)]
    /\ resp' = resp
    /\ failedAt' = failedAt

Called(r, op, ok) == calls' = [calls EXCEPT ![r] = Append(@, [op |-> op, ok |-> ok])]
Did(r, e) == effects' = [effects EXCEPT ![r] = @ \cup {e}]

\* ---------------------------------------------------- handlerUploadVideo

\* uuid.Parse(r.PathValue("videoID"))
VParseID(r) ==
    /\ kind[r] = "video" /\ pc[r] = "parseID"
    /\ \E id \in VideoIDs \cup {"not-a-uuid"} :
        IF id = "not-a-uuid"
        THEN Fail(r, StatusBadRequest, "id", fs)
        ELSE /\ Advance(r, "parseID", "authenticate")
             /\ videoID' = [videoID EXCEPT ![r] = id]
             /\ UNCHANGED << fs, userID, video, mediaType, tempFile, key,
                             processedFilePath, defers >>
    /\ UNCHANGED << db, s3, kind, calls, effects, rwOut, unit >>

\* auth.GetBearerToken, then auth.ValidateJWT
VAuthenticate(r) ==
    /\ kind[r] = "video" /\ pc[r] = "authenticate"
    /\ \E token \in Users \cup {"missing", "invalid"} :
        IF token = "missing"
        THEN Fail(r, StatusUnauthorized, "token", fs)
        ELSE IF token = "invalid"
        THEN Fail(r, StatusUnauthorized, "jwt", fs)
        ELSE /\ Advance(r, "authenticate", "authorize")
             /\ userID' = [userID EXCEPT ![r] = token]
             /\ UNCHANGED << fs, videoID, video, mediaType, tempFile, key,
                             processedFilePath, defers >>
    /\ UNCHANGED << db, s3, kind, calls, effects, rwOut, unit >>

\* Mutant: a failed lookup is answered as a client error.
VAuthorize_LookupFailureIs400(r) ==
    /\ kind[r] = "video" /\ pc[r] = "authorize"
    /\ \E ok \in BOOLEAN :
        LET got == GetVideo(db, videoID[r], ok)
        IN  IF got.err
            THEN Fail(r, StatusBadRequest, "get", fs)
            ELSE IF got.video.UserID # userID[r]
            THEN Fail(r, StatusUnauthorized, "owner", fs)
            ELSE /\ Advance(r, "authorize", "validate")
                 /\ video' = [video EXCEPT ![r] = got.video]
                 /\ UNCHANGED << fs, userID, videoID, mediaType, tempFile, key,
                                 processedFilePath, defers >>
    /\ UNCHANGED << db, s3, kind, calls, effects, rwOut, unit >>

\* cfg.db.GetVideo, then the ownership check
VAuthorize(r) ==
    /\ kind[r] = "video" /\ pc[r] = "authorize"
    /\ \E ok \in BOOLEAN :
        LET got == GetVideo(db, videoID[r], ok)
        IN  IF got.err
            THEN Fail(r, StatusInternalServerError, "get", fs)
            ELSE IF got.video.UserID # userID[r]
            THEN Fail(r, StatusUnauthorized, "owner", fs)
            ELSE /\ Advance(r, "authorize", "validate")
                 /\ video' = [video EXCEPT ![r] = got.video]
                 /\ UNCHANGED << fs, userID, videoID, mediaType, tempFile, key,
                                 processedFilePath, defers >>
    /\ UNCHANGED << db, s3, kind, calls, effects, rwOut, unit >>

\* r.FormFile("video"), mime.ParseMediaType, the allow-list. A body over the
\* http.MaxBytesReader limit shows up here, as a form file that cannot be read.
VValidate(r) ==
    /\ kind[r] = "video" /\ pc[r] = "validate"
    /\ \E form \in MediaTypes \cup {<< "no-form-file" >>, << "bad-content-type" >>} :
        IF form = << "no-form-file" >>
        THEN Fail(r, StatusBadRequest, "form", fs)
        ELSE IF form = << "bad-content-type" >>
        THEN Fail(r, StatusBadRequest, "ctype", fs)
        ELSE IF form # VideoMP4
        THEN Fail(r, StatusBadRequest, "allow", fs)
        ELSE /\ Advance(r, "validate", "createTemp")
             /\ mediaType' = [mediaType EXCEPT ![r] = form]
             /\ UNCHANGED << fs, userID, videoID, video, tempFile, key,
                             processedFilePath, defers >>
    /\ UNCHANGED << db, s3, kind, calls, effects, rwOut, unit >>

\* os.CreateTemp and the two defers that follow it; n = 0 is its failure
VCreateTemp(r) ==
    /\ kind[r] = "video" /\ pc[r] = "createTemp"
    /\ \E n \in TempNames \cup {0} :
        IF n = 0
        THEN /\ Fail(r, StatusInternalServerError, "createTemp", fs)
             /\ UNCHANGED effects
        ELSE /\ FreeTemp(fs, n)
             /\ Advance(r, "createTemp", "copy")
             /\ fs' = WriteFile(fs, TempPath(n), 0, r)
             /\ tempFile' = [tempFile EXCEPT ![r] = TempPath(n)]
             /\ defers' = [defers EXCEPT ![r] = Append(@, TempPath(n))]
             /\ Did(r, "fs")
             /\ UNCHANGED << userID, videoID, video, mediaType, key,
                             processedFilePath >>
    /\ UNCHANGED << db, s3, kind, calls, rwOut, unit >>

\* io.Copy(tempFile, file), then tempFile.Seek(0, io.SeekStart)
VCopy(r) ==
    /\ kind[r] = "video" /\ pc[r] = "copy"
    /\ \E out \in {"copy", "seek", "ok"} :
        LET written == WriteFile(fs, tempFile[r], 1, r)
        IN  IF out = "ok"
            THEN /\ Advance(r, "copy", "inspect")
                 /\ fs' = written
                 /\ UNCHANGED locals
            ELSE Fail(r, StatusInternalServerError, out, written)
    /\ UNCHANGED << db, s3, kind, calls, effects, rwOut, unit >>

\* Mutant: the probe's error is ignored and the upload goes on.
VInspect_IgnoresProbeError(r) ==
    /\ kind[r] = "video" /\ pc[r] = "inspect"
    /\ \E run \in ProbeRuns :
        LET res == getVideoAspectRatio(run)
        IN  /\ Called(r, "probe", ~res.err)
            /\ Advance(r, "inspect", "transcode")
            /\ key' = [key EXCEPT ![r] =
                        Join(<< DirectoryOf(res.aspect) >>,
                             getAssetPath(RandID(r), mediaType[r]))]
            /\ UNCHANGED << fs, userID, videoID, video, mediaType,
                            tempFile, processedFilePath, defers >>
    /\ UNCHANGED << db, s3, kind, effects, rwOut, unit >>

\* getVideoAspectRatio, the switch on its result, and the key set-up
VInspect(r) ==
    /\ kind[r] = "video" /\ pc[r] = "inspect"
    /\ \E run \in ProbeRuns :
        LET res == getVideoAspectRatio(run)
        IN  /\ Called(r, "probe", ~res.err)
            /\ IF res.err
               THEN Fail(r, StatusInternalServerError, "probe", fs)
               ELSE /\ Advance(r, "inspect", "transcode")
                    /\ key' = [key EXCEPT ![r] =
                                Join(<< DirectoryOf(res.aspect) >>,
                                     getAssetPath(RandID(r), mediaType[r]))]
                    /\ UNCHANGED << fs, userID, videoID, video, mediaType,
                                    tempFile, processedFilePath, defers >>
    /\ UNCHANGED << db, s3, kind, effects, rwOut, unit >>

\* processVideoForFastStart and the defer that follows it
VTranscode(r) ==
    /\ kind[r] = "video" /\ pc[r] = "transcode"
    /\ \E run \in FfmpegRuns :
        LET res == processVideoForFastStart(tempFile[r], run, fs, r)
        IN  /\ Called(r, "rewriter", ~res.err)
            /\ rwOut' = [rwOut EXCEPT ![r] =
                          [exit |-> run.exit, out |-> run.out,
                           left |-> StateAt(res.fs, tempFile[r] \o << ".processing" >>)]]
            /\ IF res.err
               THEN Fail(r, StatusInternalServerError, "rewriter", res.fs)
               ELSE /\ Advance(r, "transcode", "open")
                    /\ fs' = res.fs
                    /\ processedFilePath' = [processedFilePath EXCEPT ![r] = res.path]
                    /\ defers' = [defers EXCEPT ![r] = Append(@, res.path)]
                    /\ UNCHANGED << userID, videoID, video, mediaType,
                                    tempFile, key >>
    /\ UNCHANGED << db, s3, kind, effects, unit >>

\* os.Open(processedFilePath)
VOpen(r) ==
    /\ kind[r] = "video" /\ pc[r] = "open"
    /\ \E ok \in BOOLEAN :
        IF ok /\ Exists(fs, processedFilePath[r])
        THEN /\ Advance(r, "open", "put")
             /\ UNCHANGED << fs, locals >>
        ELSE Fail(r, StatusInternalServerError, "open", fs)
    /\ UNCHANGED << db, s3, kind, calls, effects, rwOut, unit >>

\* Mutant: a failed put is tried a second time.
VPut_RetriesOnce(r) ==
    /\ kind[r] = "video" /\ pc[r] = "put"
    /\ \E ok \in BOOLEAN :
        /\ Called(r, "put", ok)
        /\ IF ok
           THEN /\ Advance(r, "put", "persist")
                /\ s3' = s3 \cup {[bucket |-> s3Bucket, key |-> key[r], by |-> r]}
                /\ Did(r, "put")
                /\ UNCHANGED << fs, locals >>
           ELSE IF \A i \in 1..Len(calls[r]) : calls[r][i].op # "put"
           THEN UNCHANGED << pc, log, resp, failedAt, fs, locals, s3, effects >>
           ELSE /\ Fail(r, StatusInternalServerError, "put", fs)
                /\ UNCHANGED << s3, effects >>
    /\ UNCHANGED << db, kind, rwOut, unit >>

\* cfg.s3Client.PutObject
VPut(r) ==
    /\ kind[r] = "video" /\ pc[r] = "put"
    /\ \E ok \in BOOLEAN :
        /\ Called(r, "put", ok)
        /\ IF ok
           THEN /\ Advance(r, "put", "persist")
                /\ s3' = s3 \cup {[bucket |-> s3Bucket, key |-> key[r], by |-> r]}
                /\ Did(r, "put")
                /\ UNCHANGED << fs, locals >>
           ELSE /\ Fail(r, StatusInternalServerError, "put", fs)
                /\ UNCHANGED << s3, effects >>
    /\ UNCHANGED << db, kind, rwOut, unit >>

\* Mutant: the record is signed before it is stored.
VPersist_StoresSignedURL(r) ==
    /\ kind[r] = "video" /\ pc[r] = "persist"
    /\ LET url == CompositeRef(s3Bucket, key[r])
           v == dbVideoToSignedVideo([video[r] EXCEPT !.VideoURL = Ptr(url)],
                                     TRUE).video
       IN  \E ok \in BOOLEAN :
            /\ Called(r, "update", ok)
            /\ IF ok
               THEN /\ Advance(r, "persist", "sign")
                    /\ db' = UpdateVideo(db, v)
                    /\ video' = [video EXCEPT ![r] = v]
                    /\ Did(r, "db")
                    /\ UNCHANGED << fs, userID, videoID, mediaType, tempFile,
                                    key, processedFilePath, defers >>
               ELSE /\ Fail(r, StatusInternalServerError, "update", fs)
                    /\ UNCHANGED << db, effects >>
    /\ UNCHANGED << s3, kind, rwOut, unit >>

\* Mutant: the reference is composed from a key built anew, without the
\* classification prefix the object was put under.
VPersist_RebuildsKey(r) ==
    /\ kind[r] = "video" /\ pc[r] = "persist"
    /\ LET url == CompositeRef(s3Bucket, getAssetPath(RandID(r), mediaType[r]))
           v == [video[r] EXCEPT !.VideoURL = Ptr(url)]
       IN  \E ok \in BOOLEAN :
            /\ Called(r, "update", ok)
            /\ IF ok
               THEN /\ Advance(r, "persist", "sign")
                    /\ db' = UpdateVideo(db, v)
                    /\ video' = [video EXCEPT ![r] = v]
                    /\ Did(r, "db")
                    /\ UNCHANGED << fs, userID, videoID, mediaType, tempFile,
                                    key, processedFilePath, defers >>
               ELSE /\ Fail(r, StatusInternalServerError, "update", fs)
                    /\ UNCHANGED << db, effects >>
    /\ UNCHANGED << s3, kind, rwOut, unit >>


\* video.VideoURL = "<bucket>,<key>", then cfg.db.UpdateVideo
VPersist(r) ==
    /\ kind[r] = "video" /\ pc[r] = "persist"
    /\ LET url == CompositeRef(s3Bucket, key[r])
           v == [video[r] EXCEPT !.VideoURL = Ptr(url)]
       IN  \E ok \in BOOLEAN :
            /\ Called(r, "update", ok)
            /\ IF ok
               THEN /\ Advance(r, "persist", "sign")
                    /\ db' = UpdateVideo(db, v)
                    /\ video' = [video EXCEPT ![r] = v]
                    /\ Did(r, "db")
                    /\ UNCHANGED << fs, userID, videoID, mediaType, tempFile,
                                    key, processedFilePath, defers >>
               ELSE /\ Fail(r, StatusInternalServerError, "update", fs)
                    /\ UNCHANGED << db, effects >>
    /\ UNCHANGED << s3, kind, rwOut, unit >>

\* cfg.dbVideoToSignedVideo, then respondWithJSON
VSign(r) ==
    /\ kind[r] = "video" /\ pc[r] = "sign"
    /\ \E ok \in BOOLEAN :
        LET res == dbVideoToSignedVideo(video[r], ok)
        IN  /\ calls' = [calls EXCEPT ![r] =
                          @ \o [i \in 1..Len(res.signed) |->
                                  [op |-> "presign", ok |-> ~res.err]]]
            /\ IF res.err
               THEN Fail(r, StatusInternalServerError, "sign", fs)
               ELSE Succeed(r, "sign", res.video, fs)
    /\ UNCHANGED << db, s3, kind, effects, rwOut, unit >>

\* ------------------------------------------------ handlerUploadThumbnail

\* uuid.Parse(r.PathValue("videoID"))
TParseID(r) ==
    /\ kind[r] = "thumbnail" /\ pc[r] = "parseID"
    /\ \E id \in VideoIDs \cup {"not-a-uuid"} :
        IF id = "not-a-uuid"
        THEN Fail(r, StatusBadRequest, "id", fs)
        ELSE /\ Advance(r, "parseID", "authenticate")
             /\ videoID' = [videoID EXCEPT ![r] = id]
             /\ UNCHANGED << fs, userID, video, mediaType, tempFile, key,
                             processedFilePath, defers >>
    /\ UNCHANGED << db, s3, kind, calls, effects, rwOut, unit >>

\* auth.GetBearerToken, then auth.ValidateJWT
TAuthenticate(r) ==
    /\ kind[r] = "thumbnail" /\ pc[r] = "authenticate"
    /\ \E token \in Users \cup {"missing", "invalid"} :
        IF token = "missing"
        THEN Fail(r, StatusUnauthorized, "token", fs)
        ELSE IF token = "invalid"
        THEN Fail(r, StatusUnauthorized, "jwt", fs)
        ELSE /\ Advance(r, "authenticate", "validate")
             /\ userID' = [userID EXCEPT ![r] = token]
             /\ UNCHANGED << fs, videoID, video, mediaType, tempFile, key,
                             processedFilePath, defers >>
    /\ UNCHANGED << db, s3, kind, calls, effects, rwOut, unit >>

\* TValidate without the allow-list check: any parsed media type goes on.
TValidate_NoAllowList(r) ==
    /\ kind[r] = "thumbnail" /\ pc[r] = "validate"
    /\ \E form \in MediaTypes \cup {<< "no-form-file" >>, << "bad-content-type" >>} :
        IF form = << "no-form-file" >>
        THEN Fail(r, StatusBadRequest, "form", fs)
        ELSE IF form = << "bad-content-type" >>
        THEN Fail(r, StatusBadRequest, "ctype", fs)
        ELSE /\ Advance(r, "validate", "create")
             /\ mediaType' = [mediaType EXCEPT ![r] = form]
             /\ UNCHANGED << fs, userID, videoID, video, tempFile, key,
                             processedFilePath, defers >>
    /\ UNCHANGED << db, s3, kind, calls, effects, rwOut, unit >>

\* r.ParseMultipartForm, r.FormFile("thumbnail"), mime.ParseMediaType, the
\* allow-list
TValidate(r) ==
    /\ kind[r] = "thumbnail" /\ pc[r] = "validate"
    /\ \E form \in MediaTypes \cup {<< "no-form-file" >>, << "bad-content-type" >>} :
        IF form = << "no-form-file" >>
        THEN Fail(r, StatusBadRequest, "form", fs)
        ELSE IF form = << "bad-content-type" >>
        THEN Fail(r, StatusBadRequest, "ctype", fs)
        ELSE IF form # ImageJPEG /\ form # ImagePNG
        THEN Fail(r, StatusBadRequest, "allow", fs)
        ELSE /\ Advance(r, "validate", "create")
             /\ mediaType' = [mediaType EXCEPT ![r] = form]
             /\ UNCHANGED << fs, userID, videoID, video, tempFile, key,
                             processedFilePath, defers >>
    /\ UNCHANGED << db, s3, kind, calls, effects, rwOut, unit >>

\* getAssetPath, cfg.getAssetDiskPath, os.Create
TCreate(r) ==
    /\ kind[r] = "thumbnail" /\ pc[r] = "create"
    /\ LET assetPath == getAssetPath(RandID(r), mediaType[r])
       IN  \E ok \in BOOLEAN :
            IF ok
            THEN /\ Advance(r, "create", "copy")
                 /\ key' = [key EXCEPT ![r] = assetPath]
                 /\ fs' = WriteFile(fs, getAssetDiskPath(assetPath), 0, r)
                 /\ Did(r, "fs")
                 /\ UNCHANGED << userID, videoID, video, mediaType, tempFile,
                                 processedFilePath, defers >>
            ELSE /\ Fail(r, StatusInternalServerError, "create", fs)
                 /\ UNCHANGED effects
    /\ UNCHANGED << db, s3, kind, calls, rwOut, unit >>

\* Mutant: the return after the error response of a failed io.Copy is missing.
TCopy_NoReturn(r) ==
    /\ kind[r] = "thumbnail" /\ pc[r] = "copy"
    /\ LET written == WriteFile(fs, getAssetDiskPath(key[r]), 1, r)
       IN  \E ok \in BOOLEAN :
            /\ pc' = [pc EXCEPT ![r] = "authorize"]
            /\ log' = [log EXCEPT ![r] = Append(@, "copy")]
            /\ fs' = written
            /\ IF ok
               THEN resp' = resp /\ failedAt' = failedAt
               ELSE /\ resp' = [resp EXCEPT ![r] =
                         Append(@, [code |-> StatusInternalServerError,
                                    body |-> Nil])]
                    /\ failedAt' = [failedAt EXCEPT ![r] = "copy"]
            /\ UNCHANGED locals
    /\ UNCHANGED << db, s3, kind, calls, effects, rwOut, unit >>


\* io.Copy(dst, file)
TCopy(r) ==
    /\ kind[r] = "thumbnail" /\ pc[r] = "copy"
    /\ LET written == WriteFile(fs, getAssetDiskPath(key[r]), 1, r)
       IN  \E ok \in BOOLEAN :
            IF ok
            THEN /\ Advance(r, "copy", "authorize")
                 /\ fs' = written
                 /\ UNCHANGED locals
            ELSE Fail(r, StatusInternalServerError, "copy", written)
    /\ UNCHANGED << db, s3, kind, calls, effects, rwOut, unit >>

\* cfg.db.GetVideo, then the ownership check
TAuthorize(r) ==
    /\ kind[r] = "thumbnail" /\ pc[r] = "authorize"
    /\ \E ok \in BOOLEAN :
        LET got == GetVideo(db, videoID[r], ok)
        IN  IF got.err
            THEN Fail(r, StatusInternalServerError, "get", fs)
            ELSE IF got.video.UserID # userID[r]
            THEN Fail(r, StatusUnauthorized, "owner", fs)
            ELSE /\ Advance(r, "authorize", "persist")
                 /\ video' = [video EXCEPT ![r] = got.video]
                 /\ UNCHANGED << fs, userID, videoID, mediaType, tempFile, key,
                                 processedFilePath, defers >>
    /\ UNCHANGED << db, s3, kind, calls, effects, rwOut, unit >>

\* video.ThumbnailURL = cfg.getAssetURL(assetPath), cfg.db.UpdateVideo, then
\* respondWithJSON
TPersist(r) ==
    /\ kind[r] = "thumbnail" /\ pc[r] = "persist"
    /\ LET v == [video[r] EXCEPT !.ThumbnailURL = Ptr(getAssetURL(key[r]))]
       IN  \E ok \in BOOLEAN :
            /\ Called(r, "update", ok)
            /\ IF ok
               THEN /\ Succeed(r, "persist", v, fs)
                    /\ db' = UpdateVideo(db, v)
                    /\ Did(r, "db")
               ELSE /\ Fail(r, StatusInternalServerError, "update", fs)
                    /\ UNCHANGED << db, effects >>
    /\ UNCHANGED << s3, kind, rwOut, unit >>

\* ---------------------------------------------------------- specification

\* Which endpoint each request addresses. Requests differ in nothing but their
\* number, so the video uploads are numbered first.
Kinds ==
    { k \in [Reqs -> {"thumbnail", "video"}] :
        \A q, r \in Reqs : (q < r /\ k[r] = "video") => k[q] = "video" }

Init ==
    /\ db = InitDB
    /\ fs = NoFiles
    /\ s3 = {}
    /\ kind \in Kinds
    /\ pc = [r \in Reqs |-> "parseID"]
    /\ userID = [r \in Reqs |-> ""]
    /\ videoID = [r \in Reqs |-> ""]
    /\ video = [r \in Reqs |-> NoVideo]
    /\ mediaType = [r \in Reqs |-> << >>]
    /\ tempFile = [r \in Reqs |-> << >>]
    /\ key = [r \in Reqs |-> << >>]
    /\ processedFilePath = [r \in Reqs |-> << >>]
    /\ defers = [r \in Reqs |-> << >>]
    /\ resp = [r \in Reqs |-> << >>]
    /\ failedAt = [r \in Reqs |-> ""]
    /\ log = [r \in Reqs |-> << >>]
    /\ calls = [r \in Reqs |-> << >>]
    /\ effects = [r \in Reqs |-> {}]
    /\ rwOut = [r \in Reqs |-> NoRun]
    /\ arg = Nil
    /\ ret = Nil

Next ==
    \E r \in Reqs :
        \/ VParseID(r)
        \/ VAuthenticate(r)
        \/ VAuthorize(r)
        \/ VValidate(r)
        \/ VCreateTemp(r)
        \/ VCopy(r)
        \/ VInspect(r)
        \/ VTranscode(r)
        \/ VOpen(r)
        \/ VPut(r)
        \/ VPersist(r)
        \/ VSign(r)
        \/ TParseID(r)
        \/ TAuthenticate(r)
        \/ TValidate(r)
        \/ TCreate(r)
        \/ TCopy(r)
        \/ TAuthorize(r)
        \/ TPersist(r)

Spec == Init /\ [][Next]_vars

\* A step of request r's handler: handlerUploadVideo or handlerUploadThumbnail.
Handler(r) ==
    \/ VParseID(r)
    \/ VAuthenticate(r)
    \/ VAuthorize(r)
    \/ VValidate(r)
    \/ VCreateTemp(r)
    \/ VCopy(r)
    \/ VInspect(r)
    \/ VTranscode(r)
    \/ VOpen(r)
    \/ VPut(r)
    \/ VPersist(r)
    \/ VSign(r)
    \/ TParseID(r)
    \/ TAuthenticate(r)
    \/ TValidate(r)
    \/ TCreate(r)
    \/ TCopy(r)
    \/ TAuthorize(r)
    \/ TPersist(r)

\* Every handler runs on a goroutine of its own and every call it makes
\* returns, so a handler that can take a step eventually takes one.
SpecLive == Spec /\ \A r \in Reqs : WF_vars(Handler(r))


\* ------------------------------------------- the functions on their own

\* The pipeline at rest: no request has started.
Idle ==
    /\ db = InitDB
    /\ fs = NoFiles
    /\ s3 = {}
    /\ kind = [r \in Reqs |-> "video"]
    /\ pc = [r \in Reqs |-> "parseID"]
    /\ userID = [r \in Reqs |-> ""]
    /\ videoID = [r \in Reqs |-> ""]
    /\ video = [r \in Reqs |-> NoVideo]
    /\ mediaType = [r \in Reqs |-> << >>]
    /\ tempFile = [r \in Reqs |-> << >>]
    /\ key = [r \in Reqs |-> << >>]
    /\ processedFilePath = [r \in Reqs |-> << >>]
    /\ defers = [r \in Reqs |-> << >>]
    /\ resp = [r \in Reqs |-> << >>]
    /\ failedAt = [r \in Reqs |-> ""]
    /\ log = [r \in Reqs |-> << >>]
    /\ calls = [r \in Reqs |-> << >>]
    /\ effects = [r \in Reqs |-> {}]
    /\ rwOut = [r \in Reqs |-> NoRun]

pipeline == << db, fs, s3, kind, pc, userID, videoID, video, mediaType,
               tempFile, key, processedFilePath, defers, resp, failedAt, log,
               calls, effects, rwOut >>

\* getVideoAspectRatio and the handler's switch, applied to a probe result
\* whose first stream has any width and height up to MaxDim, or one of the
\* standard frame sizes.
InitGeom ==
    /\ Idle
    /\ arg \in { Stream(w, h) : w \in 0..MaxDim, h \in 0..MaxDim }
                \cup { Stream(d[1], d[2]) : d \in StandardDims }
    /\ ret = Nil

Inspect ==
    /\ ret = Nil
    /\ LET res == getVideoAspectRatio(
                    [exit |-> 0, json |-> TRUE, streams |-> << arg >>])
       IN  ret' = Ptr([aspect |-> res.aspect, err |-> res.err,
                       directory |-> DirectoryOf(res.aspect)])
    /\ UNCHANGED << pipeline, arg >>

SpecGeom == InitGeom /\ [][Inspect]_vars

\* dbVideoToSignedVideo applied to a record holding any stored reference of
\* up to MaxLen tokens, or none, with and without a thumbnail.
Alphabet == {"b", "k", Comma}
References == UNION { [1..n -> Alphabet] : n \in 0..MaxLen }

InitSign ==
    /\ Idle
    /\ arg \in { [Video("v1", "u1") EXCEPT !.VideoURL = u, !.ThumbnailURL = t] :
                  u \in {Nil} \cup { Ptr(s) : s \in References },
                  t \in {Nil, Ptr(getAssetURL(getAssetPath("1", ImagePNG)))} }
    /\ ret = Nil

Sign ==
    /\ ret = Nil
    /\ \E ok \in BOOLEAN : ret' = Ptr(dbVideoToSignedVideo(arg, ok))
    /\ UNCHANGED << pipeline, arg >>

SpecSign == InitSign /\ [][Sign]_vars

\* mediaTypeToExt and getAssetPath applied to any media-type string of up to
\* MaxLen tokens, and to the two types the thumbnail endpoint accepts.
TypeAlphabet == {"image", "png", Slash}
TypeStrings == UNION { [1..n -> TypeAlphabet] : n \in 0..MaxLen }

InitExt ==
    /\ Idle
    /\ arg \in TypeStrings \cup {ImageJPEG, ImagePNG}
    /\ ret = Nil

Ext ==
    /\ ret = Nil
    /\ \E id \in {"1", "2"} :
        ret' = Ptr([ext |-> mediaTypeToExt(arg), path |-> getAssetPath(id, arg)])
    /\ UNCHANGED << pipeline, arg >>

SpecExt == InitExt /\ [][Ext]_vars

\* The path of a reference through one upload: the key composed from the
\* probed geometry, PutObject into the configured bucket, the composite
\* reference, and dbVideoToSignedVideo applied to it. The bucket is any name of
\* up to MaxLen tokens; PutObject succeeds only for a bucket that exists, and
\* the store admits no bucket with a "," in its name.
BucketAlphabet == {"tubely", ".", Comma}
BucketNames == UNION { [1..n -> BucketAlphabet] : n \in 1..MaxLen }
BucketExists(bucket) == \A i \in 1..Len(bucket) : bucket[i] # Comma

InitRound ==
    /\ Idle
    /\ arg \in [bucket : BucketNames,
                stream : { Stream(d[1], d[2]) : d \in StandardDims }]
    /\ ret = Nil

Round ==
    /\ ret = Nil
    /\ \E id \in {"1", "2"}, okPut, okSign \in BOOLEAN :
        LET res == getVideoAspectRatio(
                     [exit |-> 0, json |-> TRUE, streams |-> << arg.stream >>])
            k == Join(<< DirectoryOf(res.aspect) >>, getAssetPath(id, VideoMP4))
            put == okPut /\ BucketExists(arg.bucket)
            v == [Video("v1", "u1") EXCEPT
                    !.VideoURL = Ptr(CompositeRef(arg.bucket, k))]
            s == dbVideoToSignedVideo(v, okSign)
        IN  ret' = Ptr([put |-> put, key |-> k, stored |-> v.VideoURL,
                        signed |-> s.signed, err |-> s.err])
    /\ UNCHANGED << pipeline, arg >>

SpecRound == InitRound /\ [][Round]_vars


\* ----------------------------------------------------------------- claims

Done(r) == pc[r] = "done"
Error(code) == [code |-> code, body |-> Nil]
\* The operations of calls[r], in the order they were invoked.
Ops(r) == [i \in 1..Len(calls[r]) |-> calls[r][i].op]

\* C1: on either endpoint, a request whose authenticated user does not own
\* the addressed record ends in a 401 and has, when that response is written,
\* performed no filesystem write, no object-store put and no metadata update.
C1_NonOwnerNoSideEffect ==
    \A r \in Reqs :
        failedAt[r] = "owner" =>
            /\ resp[r] = << Error(StatusUnauthorized) >>
            /\ effects[r] = {}
            /\ \A p \in DOMAIN fs : fs[p].by # r

\* C2: once a video upload has completed, at whichever step it ended, no
\* scratch file it created (staged file, rewriter output) is on the filesystem.
C2_ScratchFilesRemoved ==
    \A r \in Reqs :
        (kind[r] = "video" /\ Done(r)) => \A p \in DOMAIN fs : fs[p].by # r

\* C3: when the rewriter exits successfully and its output file is zero bytes
\* long, the upload is answered with a server error for the processing step
\* and the request performs no object-store put and no metadata update.
C3_EmptyOutputIsFailure ==
    \A r \in Reqs :
        (rwOut[r].exit = 0 /\ rwOut[r].left = "empty") =>
            /\ Done(r)
            /\ failedAt[r] = "rewriter"
            /\ resp[r] = << Error(StatusInternalServerError) >>
            /\ effects[r] \cap {"put", "db"} = {}
            /\ \A i \in 1..Len(calls[r]) : calls[r][i].op \notin {"put", "update"}

C3_Witness ==
    \E r \in Reqs :
        /\ rwOut[r].exit = 0 /\ rwOut[r].left = "empty"
        /\ Done(r) /\ resp[r] # << >>

\* C4: for every width and height of the first stream, the geometry
\* inspector answers "16:9" exactly when width*9 = height*16.
C4_WideIffExactRatio ==
    ret # Nil =>
        (ret[1].aspect = "16:9" <=> arg.Width * 9 = arg.Height * 16)

\* C5: a stored reference that does not split on "," into exactly two parts
\* comes back unchanged, with no error and without a call to presign.
C5_MalformedPassesThrough ==
    (ret # Nil /\ arg.VideoURL # Nil /\ Len(Split(arg.VideoURL[1], Comma)) # 2) =>
        /\ ret[1].video = arg
        /\ ~ret[1].err
        /\ ret[1].signed = << >>

Succeeded(r) == \E i \in 1..Len(resp[r]) : resp[r][i].code = StatusOK

\* C6: the video reference of every stored record is unset or the composite
\* "<bucket>,<key>" of an object an upload put; the URL a response carries is
\* never what the store holds.
C6_StoredReferenceIsComposite ==
    /\ \A id \in DOMAIN db :
        \/ db[id].VideoURL = Nil
        \/ \E o \in s3 : db[id].VideoURL = Ptr(o.bucket \o << Comma >> \o o.key)
    /\ \A r \in Reqs : \A i \in 1..Len(resp[r]) :
        (kind[r] = "video" /\ resp[r][i].body # Nil) =>
            /\ resp[r][i].body[1].VideoURL # Nil
            /\ \A id \in DOMAIN db :
                db[id].VideoURL # resp[r][i].body[1].VideoURL

C6_Witness ==
    \E r \in Reqs :
        /\ kind[r] = "video" /\ Succeeded(r)
        /\ \E id \in DOMAIN db : db[id].VideoURL # Nil

\* C7: a request that ends in a failure response has not changed the record
\* it addresses, and a successful one has updated it exactly once.
C7_OnlySuccessChangesRecord ==
    \A r \in Reqs :
        Done(r) =>
            IF Succeeded(r)
            THEN Cardinality({ i \in 1..Len(calls[r]) :
                    calls[r][i].op = "update" /\ calls[r][i].ok }) = 1
            ELSE "db" \notin effects[r]

\* The status the claim gives each failing check.
ClaimedStatus(cause) ==
    CASE cause \in {"id", "form", "ctype", "allow"} -> StatusBadRequest
      [] cause \in {"token", "jwt", "owner"} -> StatusUnauthorized
      [] OTHER -> StatusInternalServerError

\* C8: a failing request is answered with the status of the check that
\* failed: 400 for a malformed ID, a missing or unparseable form file or
\* content type and a type off the allow-list, 401 for a missing or invalid
\* token and an ownership mismatch, 500 for every other failure.
C8_StatusByFailingStep ==
    \A r \in Reqs :
        /\ failedAt[r] # "" => resp[r] = << Error(ClaimedStatus(failedAt[r])) >>
        /\ (Done(r) /\ ~Succeeded(r)) => failedAt[r] # ""

C8_Witness ==
    \E q, r \in Reqs :
        /\ failedAt[q] = "get" /\ resp[q] # << >>
        /\ failedAt[r] = "allow" /\ resp[r] # << >>

\* The steps of a video upload and its external operations, in pipeline order.
VideoSteps ==
    << "parseID", "authenticate", "authorize", "validate", "createTemp", "copy",
       "inspect", "transcode", "open", "put", "persist", "sign" >>
ExternalOps == << "probe", "rewriter", "put", "update", "presign" >>

\* C9: a video upload runs its steps in pipeline order, each starting only
\* once its predecessor has completed successfully: the put follows a good
\* probe and a good rewrite, the update a good put, signing a good update.
C9_StepsInOrder ==
    \A r \in Reqs :
        kind[r] = "video" =>
            /\ Len(log[r]) <= Len(VideoSteps)
            /\ log[r] = SubSeq(VideoSteps, 1, Len(log[r]))
            /\ ~Done(r) => pc[r] = VideoSteps[Len(log[r]) + 1]
            /\ Len(calls[r]) <= Len(ExternalOps)
            /\ Ops(r) = SubSeq(ExternalOps, 1, Len(calls[r]))
            /\ \A i \in 1..(Len(calls[r]) - 1) : calls[r][i].ok

C9_Witness ==
    \E r \in Reqs :
        /\ kind[r] = "video" /\ Succeeded(r)
        /\ log[r] = VideoSteps
        /\ Ops(r) = ExternalOps

\* C10: a request invokes each external operation at most once, invokes none
\* after one has failed, and writes at most one response.
C10_NoRetry ==
    \A r \in Reqs :
        /\ \A i, j \in 1..Len(calls[r]) : calls[r][i].op = calls[r][j].op => i = j
        /\ \A i \in 1..Len(calls[r]) :
            ~calls[r][i].ok => (i = Len(calls[r]) /\ Done(r) /\ ~Succeeded(r))
        /\ Len(resp[r]) <= 1

C10_Witness ==
    \E r \in Reqs :
        /\ Len(calls[r]) = 3
        /\ calls[r][3] = [op |-> "put", ok |-> FALSE]
        /\ Done(r)

\* C11: mediaTypeToExt answers "." followed by the subtype when the media type
\* holds exactly one "/", and ".bin" otherwise; the asset path generated for an
\* accepted thumbnail type (image/jpeg, image/png) ends with "." and the
\* declared subtype.
C11_ExtensionFromSubtype ==
    ret # Nil =>
        LET slashes == { i \in 1..Len(arg) : arg[i] = Slash }
            n == Len(ret[1].path)
        IN  /\ IF Cardinality(slashes) = 1
               THEN LET i == CHOOSE j \in slashes : TRUE
                    IN  ret[1].ext = << "." >> \o SubSeq(arg, i + 1, Len(arg))
               ELSE ret[1].ext = << ".bin" >>
            /\ arg \in {ImageJPEG, ImagePNG} =>
                SubSeq(ret[1].path, n - 1, n) = << ".", arg[3] >>

C11_Witness ==
    /\ ret # Nil
    /\ arg = ImagePNG
    /\ ret[1].path = << "2", ".", "png" >>

\* The media types each endpoint accepts.
Allowed(k) == IF k = "video" THEN {VideoMP4} ELSE {ImageJPEG, ImagePNG}
Validated(r) == \E i \in 1..Len(log[r]) : log[r][i] = "validate"

\* C12: a request whose media type is off its endpoint's allow-list is
\* answered with a 400 having created no file, run no external process, put no
\* object and updated no record; only a request with an allowed type goes on
\* past validation, and only such a request has any of those effects.
C12_AllowListBeforePipeline ==
    \A r \in Reqs :
        /\ failedAt[r] = "allow" =>
            /\ resp[r] = << Error(StatusBadRequest) >>
            /\ effects[r] = {} /\ calls[r] = << >>
            /\ \A p \in DOMAIN fs : fs[p].by # r
            /\ \A o \in s3 : o.by # r
        /\ (Validated(r) /\ ~Done(r)) => mediaType[r] \in Allowed(kind[r])
        /\ (effects[r] # {} \/ calls[r] # << >>) => Validated(r)

C12_Witness ==
    \E q, r \in Reqs :
        /\ kind[q] = "video" /\ failedAt[q] = "allow" /\ Done(q)
        /\ kind[r] = "thumbnail" /\ failedAt[r] = "allow" /\ Done(r)

\* The scratch paths of a request: its staged file and the rewriter's output.
ScratchPaths(r) ==
    IF tempFile[r] = << >> THEN {}
    ELSE {tempFile[r], tempFile[r] \o << ".processing" >>}
InFlight(r) == ~Done(r)

\* C13: while video uploads run concurrently, no two of them in flight hold
\* the same scratch path, a request names and removes scratch paths of its own
\* only, and no file at one of its scratch paths was created by another
\* request that is still in flight.
C13_ScratchPathsDisjoint ==
    \A r \in Reqs :
        InFlight(r) =>
            /\ \A i \in 1..Len(defers[r]) : defers[r][i] \in ScratchPaths(r)
            /\ processedFilePath[r] # << >> => processedFilePath[r] \in ScratchPaths(r)
            /\ tempFile[r] # << >> =>
                Exists(fs, tempFile[r]) /\ fs[tempFile[r]].by = r
            /\ \A q \in Reqs \ {r} :
                InFlight(q) =>
                    /\ ScratchPaths(q) \cap ScratchPaths(r) = {}
                    /\ \A p \in ScratchPaths(r) \cap DOMAIN fs : fs[p].by # q

C13_Witness ==
    \E q, r \in Reqs :
        /\ q # r /\ InFlight(q) /\ InFlight(r)
        /\ processedFilePath[q] # << >> /\ Exists(fs, processedFilePath[q])
        /\ processedFilePath[r] # << >> /\ Exists(fs, processedFilePath[r])

\* The objects request r has put into the store.
PutBy(r) == { o \in s3 : o.by = r }

\* C14: a video upload puts at most one object; from the put to the end of
\* the request the key it holds is the key of that object, the reference it
\* hands to the metadata store is "<bucket>,<that key>", and a successful
\* upload has put exactly one object, whose key its response is signed for.
C14_OneKeyPutAndPersisted ==
    \A r \in Reqs :
        kind[r] = "video" =>
            /\ Cardinality(PutBy(r)) <= 1
            /\ pc[r] \in {"persist", "sign"} =>
                PutBy(r) = {[bucket |-> s3Bucket, key |-> key[r], by |-> r]}
            /\ pc[r] = "sign" =>
                \E o \in PutBy(r) :
                    video[r].VideoURL = Ptr(o.bucket \o << Comma >> \o o.key)
            /\ Succeeded(r) =>
                \E o \in PutBy(r) :
                    /\ o.key[1] \in {"landscape", "portrait", "other"}
                    /\ SubSeq(o.key, 2, Len(o.key)) =
                            << Slash >> \o getAssetPath(RandID(r), VideoMP4)
                    /\ resp[r][1].body[1].VideoURL =
                            Ptr(generatePresignedURL(o.bucket, o.key, TRUE).url)

C14_Witness ==
    \E r \in Reqs :
        /\ kind[r] = "video" /\ Succeeded(r)
        /\ PutBy(r) # {}
        /\ db["v1"].VideoURL # Nil

\* C15: for a record with no stored video reference, with or without a
\* thumbnail, the signing adapter returns the record as it was given, reports
\* no error and asks for no presigned URL, whether or not presigning would
\* have succeeded.
C15_UnsetReferencePassesThrough ==
    (ret # Nil /\ arg.VideoURL = Nil) =>
        /\ ret[1].video = arg
        /\ ret[1].err = FALSE
        /\ Len(ret[1].signed) = 0

C15_Witness ==
    /\ ret # Nil
    /\ arg.VideoURL = Nil
    /\ arg.ThumbnailURL # Nil
    /\ ret[1].video.ThumbnailURL = arg.ThumbnailURL

\* C16: for a probe result with a first stream of width w and height h the
\* prefix is "landscape" when w equals 16*h/9 rounded down, otherwise
\* "portrait" when h equals 16*w/9 rounded down, otherwise "other"; it is one
\* of the three, and 1920x1080 is landscape, 1080x1920 portrait and 1000x1000
\* other.
C16_PrefixByTruncatedRatio ==
    ret # Nil =>
        LET w == arg.Width
            h == arg.Height
            wide == 9 * w <= 16 * h /\ 16 * h < 9 * w + 9
            tall == 9 * h <= 16 * w /\ 16 * w < 9 * h + 9
            dir == ret[1].directory
        IN  /\ ~ret[1].err
            /\ dir \in {"landscape", "portrait", "other"}
            /\ dir = "landscape" <=> wide
            /\ dir = "portrait" <=> (~wide /\ tall)
            /\ dir = "other" <=> (~wide /\ ~tall)
            /\ (w = 1920 /\ h = 1080) => dir = "landscape"
            /\ (w = 1080 /\ h = 1920) => dir = "portrait"
            /\ (w = 1000 /\ h = 1000) => dir = "other"

C16_Witness ==
    /\ ret # Nil
    /\ arg = Stream(1080, 1920)
    /\ ret[1].directory = "portrait"

C18_BothUpdatesKept ==
    \A q, r \in Reqs :
        ( /\ kind[q] = "video" /\ Succeeded(q)
          /\ kind[r] = "thumbnail" /\ Succeeded(r)
          /\ \A x \in Reqs \ {q, r} : "db" \notin effects[x] ) =>
            /\ \E o \in PutBy(q) :
                db["v1"].VideoURL = Ptr(CompositeRef(o.bucket, o.key))
            /\ db["v1"].ThumbnailURL = resp[r][1].body[1].ThumbnailURL

\* C19: once every request has completed, every object put into the store is
\* the one the stored video reference of some record names.
C19_NoUnreferencedObject ==
    (\A r \in Reqs : Done(r)) =>
        \A o \in s3 :
            \E id \in DOMAIN db :
                db[id].VideoURL = Ptr(CompositeRef(o.bucket, o.key))

\* The steps of a thumbnail upload, in the handler's order.
ThumbnailSteps ==
    << "parseID", "authenticate", "validate", "create", "copy", "authorize",
       "persist" >>
StepsOf(r) == IF kind[r] = "video" THEN VideoSteps ELSE ThumbnailSteps

\* C20: every upload request, each of its calls returning, comes to its end
\* having written exactly one response, a success or an error, never both and
\* never none: a request that has not returned has written nothing and can
\* take its next step, every step it takes moves it one step further down its
\* handler or ends it, and at its end it has written one response.
C20_EndsWithOneResponse ==
    /\ [](\A r \in Reqs :
            IF Done(r)
            THEN /\ Len(resp[r]) = 1
                 /\ Succeeded(r) <=> failedAt[r] = ""
            ELSE /\ resp[r] = << >>
                 /\ Len(log[r]) < Len(StepsOf(r))
                 /\ pc[r] = StepsOf(r)[Len(log[r]) + 1]
                 /\ ENABLED Handler(r))
    /\ [][\A r \in Reqs :
            pc'[r] # pc[r] =>
                \/ Done(r)' /\ Len(resp'[r]) = Len(resp[r]) + 1
                \/ ~Done(r)' /\ Len(log'[r]) = Len(log[r]) + 1]_vars

C20_Witness ==
    \E q, r \in Reqs :
        /\ Done(q) /\ resp[q] = << Error(StatusInternalServerError) >>
        /\ Done(r) /\ Succeeded(r) /\ Len(resp[r]) = 1

====
